---- MODULE Spec2Model ----
(***************************************************************************)
(* Model of modules/planning/common/frame.cc: the per-cycle planning       *)
(* Frame (setters, Init, AlignPredictionTime, AddObstacle) and the         *)
(* FrameHistory queue.                                                     *)
(*                                                                         *)
(* Doubles are modelled as records [cls, v]: cls is "nan", "inf" or "fin"  *)
(* and v the value of a finite double.  Times are integers counting half   *)
(* seconds, so 100.0 s is 200 and 0.5 s is 1.                              *)
(***************************************************************************)
EXTENDS Integers, Sequences, FiniteSets, TLC

\* ------------------------------------------------------------------ bounds
MaxObstacles == 2
MaxPoints == 2
MaxAlignCalls == 2
max_history_frame_num == 2

\* ---------------------------------------------------------- value domains
NULL == 0
Maps == {1}

NaN == [cls |-> "nan", v |-> 0]
Inf == [cls |-> "inf", v |-> 0]
Fin(n) == [cls |-> "fin", v |-> n]

isnan(d) == d.cls = "nan"

PointENU(x, y) == [x |-> x, y |-> y]
\* a default-constructed pose: the proto's doubles default to NaN
DefaultPose == PointENU(NaN, NaN)
Poses == {PointENU(Fin(10), Fin(5)), PointENU(NaN, Fin(5)),
          PointENU(Fin(10), NaN), PointENU(Inf, Fin(5)),
          PointENU(Fin(10), Inf)}

Routings == {1}
DefaultRouting == 0
Configs == {1}
DefaultConfig == 0

ObstacleIds == {99}
ExternalIds == {50}
HeaderTimes == {200, 202}
AlignTimes == {200, 201, 202}
RelTimes == {0, 1}

SeqsUpTo(S, n) == UNION {[1..k -> S] : k \in 0..n}

RECURSIVE SeqToSet(_)
SeqToSet(s) == IF s = <<>> THEN {} ELSE {Head(s)} \cup SeqToSet(Tail(s))

\* prediction::PredictionObstacle: an identity and its trajectories, each a
\* sequence of points of which the model keeps relative_time
PredictionObstacle(id, trajs) == [id |-> id, trajectory |-> trajs]
PredictionObstacles(T, obs) == [header |-> T, prediction_obstacle |-> obs]
DefaultPrediction == PredictionObstacles(0, <<>>)

\* the prediction sets the frame specification feeds to SetPrediction
FramePredictions ==
  {PredictionObstacles(200, obs) :
     obs \in SeqsUpTo({PredictionObstacle(i, << <<r>> >>) :
                         i \in ObstacleIds, r \in RelTimes},
                      MaxObstacles)}

\* the prediction sets the aligner specification starts from
AlignPredictions ==
  {PredictionObstacles(T, obs) :
     T \in HeaderTimes,
     obs \in SeqsUpTo({PredictionObstacle(99, t) :
                         t \in SeqsUpTo(SeqsUpTo(RelTimes, MaxPoints), 1)},
                      1)}

\* Frame::planning_start_point_, of which the model keeps the time; the
\* default TrajectoryPoint has time 0
DefaultStartPoint == 0
StartPoints == {202}

\* Frame::trajectory_pb_: empty, or written through MutableADCTrajectory
EmptyTrajectory == 0
Trajectories == {1}

\* the Frames whose Init calls may overlap, and where an Init stands
\* between its map check (line 117) and its use of the map (line 162)
Frames == {1, 2}
OverlapMaps == {1, 2}
Idle == [pc |-> "idle", seen |-> NULL, used |-> NULL]

\* ------------------------------------------------------------------ state
VARIABLES pnc_map_, init_pose_, routing_response_, prediction_,
          FLAGS_enable_prediction, smoother_config_,
          obstacles_, reference_line_info_, reference_line_,
          path_decision_, frame_history, inserted, align_trace, last,
          planning_start_point_, trajectory_pb_, init_step

vars == <<pnc_map_, init_pose_, routing_response_, prediction_,
          FLAGS_enable_prediction, smoother_config_,
          obstacles_, reference_line_info_, reference_line_,
          path_decision_, frame_history, inserted, align_trace, last,
          planning_start_point_, trajectory_pb_, init_step>>

frameVars == <<pnc_map_, init_pose_, routing_response_, prediction_,
               FLAGS_enable_prediction, smoother_config_,
               obstacles_, reference_line_info_, reference_line_,
               path_decision_>>

historyVars == <<frame_history, inserted>>

\* the state the operations of the first part of the model never write:
\* the planning start point, the output trajectory, and the position of
\* each overlapping Init between its two reads of the map reference
otherVars == <<planning_start_point_, trajectory_pb_, init_step>>

\* what the last call was, what it returned and which collaborators it
\* invoked
NoCall == [op |-> "none", ret |-> FALSE, map_called |-> FALSE,
           map_ok |-> FALSE, smooth_called |-> FALSE, smooth_ok |-> FALSE,
           ingested |-> FALSE, attach_called |-> FALSE, attach_ok |-> FALSE,
           arg |-> 0]

Call(op, arg) == [NoCall EXCEPT !.op = op, !.arg = arg]

\* ------------------------------------------------- collaborators' values
\* hdmap::Path as produced by PncMap::CreatePathFromRouting: determined by
\* the routing and the position it was asked for
Path(routing, position) == [routing |-> routing, position |-> position]
NoPath == Path(DefaultRouting, DefaultPose)

\* ReferenceLine(path) is the raw line over a path, ReferenceLine() the
\* empty one; the smoother writes the smoothed line of a raw one
ReferenceLine(path) == [path |-> path, smoothed |-> FALSE]
EmptyReferenceLine == ReferenceLine(NoPath)
Smoothed(raw) == [raw EXCEPT !.smoothed = TRUE]

\* a ReferenceLineInfo holds its reference line and a path decision, here
\* the identities of the obstacles attached to it, in order
ReferenceLineInfo(reference_line) ==
  [reference_line |-> reference_line, path_decision |-> <<>>]

\* Obstacle::CreateObstacles: one Obstacle per predicted obstacle, carrying
\* its identity and its first trajectory (none when it has no trajectory)
Obstacle(id, trajectory) == [id |-> id, trajectory |-> trajectory]

CreateObstacles(prediction) ==
  [i \in 1..Len(prediction.prediction_obstacle) |->
     LET po == prediction.prediction_obstacle[i]
     IN  Obstacle(po.id, IF po.trajectory = <<>> THEN <<>>
                         ELSE po.trajectory[1])]

\* IndexedList::Find and IndexedList::Add: an identity already in the list
\* is rejected and the list left as it is
Find(list, id) == \E i \in 1..Len(list) : list[i].id = id

Add(list, id, obstacle) ==
  IF Find(list, id) THEN [ret |-> FALSE, list |-> list]
  ELSE [ret |-> TRUE, list |-> Append(list, obstacle)]

\* IndexedList::Items: the stored objects in insertion order
Items(list) == list

\* ReferenceLineInfo::AddObstacles: attaches the obstacles in order; fail
\* is 0 when every attachment succeeds, else the position of the obstacle
\* whose attachment fails (the ones before it stay attached)
AddObstacles(info, items, fail) ==
  IF fail = 0
  THEN [ret |-> TRUE,
        info |-> [info EXCEPT !.path_decision =
                    [i \in 1..Len(items) |-> items[i].id]]]
  ELSE [ret |-> FALSE,
        info |-> [info EXCEPT !.path_decision =
                    [i \in 1..(fail - 1) |-> items[i].id]]]

\* ----------------------------------------------------- Frame's operations
\* Frame::CreatePredictionObstacles: adds the obstacles built from the
\* prediction to the registry, one by one; Add's result is not looked at
RECURSIVE AddAll(_, _)
AddAll(list, obstacles) ==
  IF obstacles = <<>> THEN list
  ELSE AddAll(Add(list, Head(obstacles).id, Head(obstacles)).list,
              Tail(obstacles))

\* CreatePredictionObstacles moving every relative time into the time base
\* of the planning start point before it adds the obstacle
CreatePredictionObstacles_Aligned(list, prediction) ==
  AddAll(list,
         [i \in 1..Len(prediction.prediction_obstacle) |->
            LET o == CreateObstacles(prediction)[i]
            IN  Obstacle(o.id,
                         [k \in 1..Len(o.trajectory) |->
                            prediction.header + o.trajectory[k]
                            - planning_start_point_])])

CreatePredictionObstacles(list, prediction) ==
  AddAll(list, CreateObstacles(prediction))

\* Frame::InitReferenceLineInfo: one fresh ReferenceLineInfo per reference
\* line, then AddObstacles on each in order, stopping at the first failure.
\* fails[i] is the AddObstacles outcome for the i-th info.
FirstFailure(fails) ==
  IF \E i \in 1..Len(fails) : fails[i] # 0
  THEN CHOOSE i \in 1..Len(fails) :
         fails[i] # 0 /\ \A j \in 1..(i - 1) : fails[j] = 0
  ELSE 0

InitReferenceLineInfo(reference_lines, items, fails) ==
  LET fresh == [i \in 1..Len(reference_lines) |->
                  ReferenceLineInfo(reference_lines[i])]
      bad == FirstFailure(fails)
  IN  [ret |-> bad = 0,
       reference_line_info |->
         [i \in 1..Len(fresh) |->
            IF bad = 0 \/ i <= bad
            THEN AddObstacles(fresh[i], items, fails[i]).info
            ELSE fresh[i]]]

\* CreateReferenceLineFromRouting with the smoother's result read the wrong
\* way round
CreateReferenceLineFromRouting_SmoothInverted(position, routing, reference_lines, map_ok, smooth_ok) ==
  IF ~map_ok
  THEN [ret |-> FALSE, reference_lines |-> reference_lines,
        map_called |-> TRUE, smooth_called |-> FALSE]
  ELSE [ret |-> ~smooth_ok,
        reference_lines |-> Append(reference_lines, EmptyReferenceLine),
        map_called |-> TRUE, smooth_called |-> TRUE]

\* CreateReferenceLineFromRouting without the return on a smoother failure
CreateReferenceLineFromRouting_NoReturnOnSmoothFail(position, routing, reference_lines, map_ok, smooth_ok) ==
  IF ~map_ok
  THEN [ret |-> FALSE, reference_lines |-> reference_lines,
        map_called |-> TRUE, smooth_called |-> FALSE]
  ELSE [ret |-> TRUE,
        reference_lines |->
          Append(reference_lines,
                 IF smooth_ok
                 THEN Smoothed(ReferenceLine(Path(routing, position)))
                 ELSE EmptyReferenceLine),
        map_called |-> TRUE, smooth_called |-> TRUE]

\* CreateReferenceLineFromRouting pushing the smoothed line as a further
\* element instead of writing it into the one it appended
CreateReferenceLineFromRouting_PushesSmoothed(position, routing, reference_lines, map_ok, smooth_ok) ==
  IF ~map_ok
  THEN [ret |-> FALSE, reference_lines |-> reference_lines,
        map_called |-> TRUE, smooth_called |-> FALSE]
  ELSE [ret |-> smooth_ok,
        reference_lines |->
          IF smooth_ok
          THEN reference_lines
                 \o <<EmptyReferenceLine,
                      Smoothed(ReferenceLine(Path(routing, position)))>>
          ELSE Append(reference_lines, EmptyReferenceLine),
        map_called |-> TRUE, smooth_called |-> TRUE]

\* CreateReferenceLineFromRouting without the return on a map failure: the
\* smoother is run on the path the map did not fill
CreateReferenceLineFromRouting_NoReturnOnMapFail(position, routing, reference_lines, map_ok, smooth_ok) ==
  IF ~smooth_ok
  THEN [ret |-> FALSE,
        reference_lines |-> Append(reference_lines, EmptyReferenceLine),
        map_called |-> TRUE, smooth_called |-> TRUE]
  ELSE [ret |-> TRUE,
        reference_lines |->
          Append(reference_lines,
                 Smoothed(ReferenceLine(IF map_ok
                                        THEN Path(routing, position)
                                        ELSE NoPath))),
        map_called |-> TRUE, smooth_called |-> TRUE]

\* Frame::CreateReferenceLineFromRouting: asks the map for a path, appends
\* an empty reference line and has the smoother fill it from the raw line.
\* map_ok and smooth_ok are the collaborators' outcomes.
CreateReferenceLineFromRouting(position, routing, reference_lines, map_ok, smooth_ok) ==
  IF ~map_ok
  THEN [ret |-> FALSE, reference_lines |-> reference_lines,
        map_called |-> TRUE, smooth_called |-> FALSE]
  ELSE LET hdmap_path == Path(routing, position)
           appended == Append(reference_lines, EmptyReferenceLine)
       IN  IF ~smooth_ok
           THEN [ret |-> FALSE, reference_lines |-> appended,
                 map_called |-> TRUE, smooth_called |-> TRUE]
           ELSE [ret |-> TRUE,
                 reference_lines |->
                   [appended EXCEPT ![Len(appended)] =
                      Smoothed(ReferenceLine(hdmap_path))],
                 map_called |-> TRUE, smooth_called |-> TRUE]

\* Init without its map check
MapIsNull_Never(pnc_map) == FALSE

\* the map check of Frame::Init
MapIsNull(pnc_map) == pnc_map = NULL

\* the pose check looking at x alone
PoseIsNotSet_OnlyX(point) == isnan(point.x)

\* the pose check written with isfinite
PoseIsNotSet_NotFinite(point) == point.x.cls # "fin" \/ point.y.cls # "fin"

\* the pose check of Frame::Init
PoseIsNotSet(point) == isnan(point.x) \/ isnan(point.y)

\* Init returning what InitReferenceLineInfo returned, after the list has
\* been rebuilt
InitReturn_Propagates(attach_ret) == attach_ret

\* whether Frame::Init looks at what InitReferenceLineInfo returned
InitReturn(attach_ret) == TRUE

\* the path decision of the element after the one asked for
PathDecisionOf_Next(index) == index + 2

\* path_decision_ points into reference_line_info_: 0 is the null pointer,
\* i > 0 the path decision of the i-th element
PathDecisionOf(index) == index + 1

\* ------------------------------------------------------------- the actions
SetMap(pnc_map) ==
  /\ pnc_map_' = pnc_map
  /\ last' = Call("SetMap", 0)
  /\ UNCHANGED <<init_pose_, routing_response_, prediction_,
                 FLAGS_enable_prediction, smoother_config_, obstacles_,
                 reference_line_info_, reference_line_, path_decision_,
                 frame_history, inserted, align_trace, otherVars>>

SetVehicleInitPose(pose) ==
  /\ init_pose_' = pose
  /\ last' = Call("SetVehicleInitPose", 0)
  /\ UNCHANGED <<pnc_map_, routing_response_, prediction_,
                 FLAGS_enable_prediction, smoother_config_, obstacles_,
                 reference_line_info_, reference_line_, path_decision_,
                 frame_history, inserted, align_trace, otherVars>>

SetRoutingResponse(routing) ==
  /\ routing_response_' = routing
  /\ last' = Call("SetRoutingResponse", 0)
  /\ UNCHANGED <<pnc_map_, init_pose_, prediction_,
                 FLAGS_enable_prediction, smoother_config_, obstacles_,
                 reference_line_info_, reference_line_, path_decision_,
                 frame_history, inserted, align_trace, otherVars>>

SetPrediction(prediction) ==
  /\ prediction_' = prediction
  /\ last' = Call("SetPrediction", 0)
  /\ UNCHANGED <<pnc_map_, init_pose_, routing_response_,
                 FLAGS_enable_prediction, smoother_config_, obstacles_,
                 reference_line_info_, reference_line_, path_decision_,
                 frame_history, inserted, align_trace, otherVars>>

SetPlanningStartPoint(start_point) ==
  /\ planning_start_point_' = start_point
  /\ last' = Call("SetPlanningStartPoint", 0)
  /\ UNCHANGED <<pnc_map_, init_pose_, routing_response_, prediction_,
                 FLAGS_enable_prediction, smoother_config_, obstacles_,
                 reference_line_info_, reference_line_, path_decision_,
                 frame_history, inserted, align_trace, trajectory_pb_,
                 init_step>>

\* a write through the pointer Frame::MutableADCTrajectory hands out
MutableADCTrajectory(trajectory) ==
  /\ trajectory_pb_' = trajectory
  /\ last' = Call("MutableADCTrajectory", 0)
  /\ UNCHANGED <<pnc_map_, init_pose_, routing_response_, prediction_,
                 FLAGS_enable_prediction, smoother_config_, obstacles_,
                 reference_line_info_, reference_line_, path_decision_,
                 frame_history, inserted, align_trace,
                 planning_start_point_, init_step>>

\* Frame::AddObstacle has no return statement: the caller reads an
\* indeterminate bool
AddObstacle(id, ret) ==
  /\ obstacles_' = Add(obstacles_, id, Obstacle(id, <<>>)).list
  /\ last' = [Call("AddObstacle", id) EXCEPT !.ret = ret]
  /\ UNCHANGED <<pnc_map_, init_pose_, routing_response_, prediction_,
                 FLAGS_enable_prediction, smoother_config_,
                 reference_line_info_, reference_line_, path_decision_,
                 frame_history, inserted, align_trace, otherVars>>

\* Frame::Init, with the outcome of the map collaborator, of the smoother
\* and of AddObstacles
FrameInit(config, map_ok, smooth_ok) ==
  /\ UNCHANGED <<pnc_map_, init_pose_, routing_response_, prediction_,
                 FLAGS_enable_prediction, frame_history, inserted,
                 align_trace, otherVars>>
  /\ IF MapIsNull(pnc_map_)
     THEN /\ last' = Call("Init", 0)
          /\ UNCHANGED <<smoother_config_, obstacles_,
                         reference_line_info_, reference_line_,
                         path_decision_>>
     ELSE IF PoseIsNotSet(init_pose_)
     THEN /\ last' = Call("Init", 0)
          /\ UNCHANGED <<smoother_config_, obstacles_,
                         reference_line_info_, reference_line_,
                         path_decision_>>
     ELSE
       LET built == CreateReferenceLineFromRouting(
                      init_pose_, routing_response_, <<>>,
                      map_ok, smooth_ok)
           called == [Call("Init", 0) EXCEPT
                        !.map_called = built.map_called,
                        !.map_ok = map_ok,
                        !.smooth_called = built.smooth_called,
                        !.smooth_ok = built.smooth_called /\ smooth_ok]
       IN
       /\ smoother_config_' = config
       /\ IF ~built.ret
          THEN /\ last' = called
               /\ UNCHANGED <<obstacles_, reference_line_info_,
                              reference_line_, path_decision_>>
          ELSE
            LET registry == IF FLAGS_enable_prediction
                            THEN CreatePredictionObstacles(obstacles_,
                                                           prediction_)
                            ELSE obstacles_
            IN
            \E fails \in [1..Len(built.reference_lines)
                           -> 0..Len(registry)] :
              LET attached == InitReferenceLineInfo(
                                built.reference_lines, Items(registry),
                                fails)
              IN
              /\ obstacles_' = registry
              /\ reference_line_info_' = attached.reference_line_info
              /\ reference_line_' = Head(built.reference_lines)
              /\ path_decision_' = PathDecisionOf(0)
              /\ last' = [called EXCEPT
                            !.ingested = FLAGS_enable_prediction,
                            !.attach_called = TRUE,
                            !.attach_ok = attached.ret,
                            !.ret = InitReturn(attached.ret)]

\* AlignPredictionTime with the two header times swapped
AlignPredictionTime_Swapped(prediction, trajectory_header_time) ==
  [prediction EXCEPT !.prediction_obstacle =
     [i \in 1..Len(prediction.prediction_obstacle) |->
        LET obstacle == prediction.prediction_obstacle[i]
        IN  [obstacle EXCEPT !.trajectory =
               [j \in 1..Len(obstacle.trajectory) |->
                  [k \in 1..Len(obstacle.trajectory[j]) |->
                     trajectory_header_time + obstacle.trajectory[j][k]
                     - prediction.header]]]]]

\* AlignPredictionTime with the point loop starting one point late
AlignPredictionTime_SkipFirstPoint(prediction, trajectory_header_time) ==
  [prediction EXCEPT !.prediction_obstacle =
     [i \in 1..Len(prediction.prediction_obstacle) |->
        LET obstacle == prediction.prediction_obstacle[i]
        IN  [obstacle EXCEPT !.trajectory =
               [j \in 1..Len(obstacle.trajectory) |->
                  [k \in 1..Len(obstacle.trajectory[j]) |->
                     IF k = 1 THEN obstacle.trajectory[j][k]
                     ELSE prediction.header + obstacle.trajectory[j][k]
                          - trajectory_header_time]]]]]

\* Frame::AlignPredictionTime: every point of every trajectory of every
\* obstacle gets prediction header time + its relative time - the
\* trajectory header time
AlignPredictionTime(prediction, trajectory_header_time) ==
  LET prediction_header_time == prediction.header
  IN  [prediction EXCEPT !.prediction_obstacle =
         [i \in 1..Len(prediction.prediction_obstacle) |->
            LET obstacle == prediction.prediction_obstacle[i]
            IN  [obstacle EXCEPT !.trajectory =
                   [j \in 1..Len(obstacle.trajectory) |->
                      LET trajectory == obstacle.trajectory[j]
                      IN  [k \in 1..Len(trajectory) |->
                             LET abs_relative_time == trajectory[k]
                             IN  prediction_header_time + abs_relative_time
                                 - trajectory_header_time]]]]]

\* a call of AlignPredictionTime; align_trace keeps, per call, the header
\* time passed and the prediction set the call started from
AlignPredictionTimeCall(trajectory_header_time) ==
  /\ Len(align_trace) < MaxAlignCalls
  /\ prediction_' = AlignPredictionTime(prediction_, trajectory_header_time)
  /\ align_trace' = Append(align_trace,
                           [H |-> trajectory_header_time,
                            before |-> prediction_])
  /\ last' = Call("AlignPredictionTime", trajectory_header_time)
  /\ UNCHANGED <<pnc_map_, init_pose_, routing_response_,
                 FLAGS_enable_prediction, smoother_config_, obstacles_,
                 reference_line_info_, reference_line_, path_decision_,
                 frame_history, inserted, otherVars>>

\* ------------------------------------------------------------ FrameHistory
\* a FrameHistory one Frame larger than configured
FrameHistoryCapacity_PlusOne == max_history_frame_num + 1

\* FrameHistory::FrameHistory: an IndexedQueue of capacity
\* FLAGS_max_history_frame_num
FrameHistoryCapacity == max_history_frame_num

\* the sequence numbers of the Frames offered to the history, and how many
\* insertions a run makes
SequenceNums == 1..(max_history_frame_num + 3)
MaxInserts == max_history_frame_num + 2

\* IndexedQueue::Add: a key already present is rejected; at capacity the
\* oldest entry is evicted before the new one is appended
IndexedQueueAdd(queue, capacity, id) ==
  IF \E i \in 1..Len(queue) : queue[i] = id
  THEN [ret |-> FALSE, queue |-> queue]
  ELSE IF Len(queue) >= capacity
  THEN [ret |-> TRUE, queue |-> Append(Tail(queue), id)]
  ELSE [ret |-> TRUE, queue |-> Append(queue, id)]

\* a Frame(sequence_num) is added to the history; inserted lists the
\* sequence numbers the history accepted, in insertion order
HistoryAdd(sequence_num) ==
  LET added == IndexedQueueAdd(frame_history, FrameHistoryCapacity,
                               sequence_num)
  IN  /\ Len(inserted) < MaxInserts
      /\ frame_history' = added.queue
      /\ inserted' = IF added.ret THEN Append(inserted, sequence_num)
                     ELSE inserted
      /\ last' = [Call("HistoryAdd", sequence_num) EXCEPT !.ret = added.ret]
      /\ UNCHANGED <<frameVars, align_trace, otherVars>>

\* ------------------------------------------------------ the specification
Init ==
  /\ pnc_map_ = NULL
  /\ init_pose_ = DefaultPose
  /\ routing_response_ = DefaultRouting
  /\ prediction_ = DefaultPrediction
  /\ FLAGS_enable_prediction \in BOOLEAN
  /\ smoother_config_ = DefaultConfig
  /\ obstacles_ = <<>>
  /\ reference_line_info_ = <<>>
  /\ reference_line_ = EmptyReferenceLine
  /\ path_decision_ = NULL
  /\ frame_history = <<>>
  /\ inserted = <<>>
  /\ align_trace = <<>>
  /\ last = NoCall
  /\ planning_start_point_ = DefaultStartPoint
  /\ trajectory_pb_ = EmptyTrajectory
  /\ init_step = [f \in Frames |-> Idle]

Next ==
  \/ \E pnc_map \in Maps \cup {NULL} : SetMap(pnc_map)
  \/ \E pose \in Poses : SetVehicleInitPose(pose)
  \/ \E routing \in Routings : SetRoutingResponse(routing)
  \/ \E prediction \in FramePredictions : SetPrediction(prediction)
  \/ \E id \in ExternalIds, ret \in BOOLEAN : AddObstacle(id, ret)
  \/ \E config \in Configs, map_ok \in BOOLEAN, smooth_ok \in BOOLEAN :
       FrameInit(config, map_ok, smooth_ok)

Spec == Init /\ [][Next]_vars

\* the Temporal Aligner on its own, from every prediction set of
\* AlignPredictions
InitAlign ==
  /\ pnc_map_ = NULL
  /\ init_pose_ = DefaultPose
  /\ routing_response_ = DefaultRouting
  /\ prediction_ \in AlignPredictions
  /\ FLAGS_enable_prediction = TRUE
  /\ smoother_config_ = DefaultConfig
  /\ obstacles_ = <<>>
  /\ reference_line_info_ = <<>>
  /\ reference_line_ = EmptyReferenceLine
  /\ path_decision_ = NULL
  /\ frame_history = <<>>
  /\ inserted = <<>>
  /\ align_trace = <<>>
  /\ last = NoCall
  /\ planning_start_point_ = DefaultStartPoint
  /\ trajectory_pb_ = EmptyTrajectory
  /\ init_step = [f \in Frames |-> Idle]

NextAlign == \E H \in AlignTimes : AlignPredictionTimeCall(H)

SpecAlign == InitAlign /\ [][NextAlign]_vars

\* one planning cycle with every operation of the Frame, on the inputs of
\* the spec's end-to-end scenario: pose (10, 5) or one with a NaN x, a
\* prediction set of one obstacle 99 with one point at 0.5 s and header
\* time 100 s, planning start time 101 s
CyclePoses == {PointENU(Fin(10), Fin(5)), PointENU(NaN, Fin(5))}
CyclePredictions ==
  {PredictionObstacles(200, <<PredictionObstacle(99, << <<1>> >>)>>)}
CycleAlignTimes == StartPoints

InitCycle ==
  /\ Init
  /\ FLAGS_enable_prediction = TRUE

NextCycle ==
  \/ \E pnc_map \in Maps \cup {NULL} : SetMap(pnc_map)
  \/ \E pose \in CyclePoses : SetVehicleInitPose(pose)
  \/ \E routing \in Routings : SetRoutingResponse(routing)
  \/ \E prediction \in CyclePredictions : SetPrediction(prediction)
  \/ \E start_point \in StartPoints : SetPlanningStartPoint(start_point)
  \/ \E trajectory \in Trajectories : MutableADCTrajectory(trajectory)
  \/ \E id \in ExternalIds, ret \in BOOLEAN : AddObstacle(id, ret)
  \/ \E H \in CycleAlignTimes : AlignPredictionTimeCall(H)
  \/ \E config \in Configs, map_ok \in BOOLEAN, smooth_ok \in BOOLEAN :
       FrameInit(config, map_ok, smooth_ok)

SpecCycle == InitCycle /\ [][NextCycle]_vars

\* Init calls of several Frames overlapping with SetMap calls: each Init
\* reads the static pnc_map_ twice, at its map check (line 117) and when
\* CreateReferenceLineFromRouting dereferences it (line 162); nothing is
\* held between the two reads
InitCheckMap(f) ==
  /\ init_step[f].pc = "idle"
  /\ init_step' = [init_step EXCEPT ![f] =
                     IF MapIsNull(pnc_map_)
                     THEN [pc |-> "failed", seen |-> NULL, used |-> NULL]
                     ELSE [pc |-> "checked", seen |-> pnc_map_,
                           used |-> NULL]]
  /\ last' = Call("InitCheckMap", f)
  /\ UNCHANGED <<frameVars, historyVars, align_trace,
                 planning_start_point_, trajectory_pb_>>

InitUseMap(f) ==
  /\ init_step[f].pc = "checked"
  /\ init_step' = [init_step EXCEPT ![f] =
                     [pc |-> "called", seen |-> init_step[f].seen,
                      used |-> pnc_map_]]
  /\ last' = Call("InitUseMap", f)
  /\ UNCHANGED <<frameVars, historyVars, align_trace,
                 planning_start_point_, trajectory_pb_>>

NextOverlap ==
  \/ \E pnc_map \in OverlapMaps \cup {NULL} : SetMap(pnc_map)
  \/ \E f \in Frames : InitCheckMap(f)
  \/ \E f \in Frames : InitUseMap(f)

SpecOverlap == InitCycle /\ [][NextOverlap]_vars

\* the FrameHistory on its own
InitHistory ==
  /\ Init
  /\ FLAGS_enable_prediction = TRUE

NextHistory == \E sequence_num \in SequenceNums : HistoryAdd(sequence_num)

SpecHistory == InitHistory /\ [][NextHistory]_vars

\* ---------------------------------------------------------------- claims
AnyNaN(point) == point.x.cls = "nan" \/ point.y.cls = "nan"
AnyInf(point) == point.x.cls = "inf" \/ point.y.cls = "inf"

\* C1: when the map is set, the pose has no NaN coordinate and the map
\* collaborator and the smoother both succeed, Init returns true and
\* reference_line_info() is non-empty afterwards.
C1_InitSucceeds ==
  (/\ last.op = "Init"
   /\ pnc_map_ # NULL
   /\ ~AnyNaN(init_pose_)
   /\ last.map_ok
   /\ last.smooth_ok)
  => (last.ret = TRUE /\ Len(reference_line_info_) > 0)

C1_Witness ==
  /\ last.op = "Init"
  /\ pnc_map_ # NULL
  /\ init_pose_ = PointENU(Fin(10), Fin(5))
  /\ last.map_ok /\ last.smooth_ok
  /\ last.ret = TRUE
  /\ Len(reference_line_info_) = 1

\* C2: an Init called while the map reference is unset returns false, does
\* not invoke the map collaborator or the smoother, and leaves the
\* ReferenceLineInfo list and the primary reference line as they were.
C2_MapUnset ==
  [][(last'.op = "Init" /\ pnc_map_ = NULL)
     => (/\ last'.ret = FALSE
         /\ ~last'.map_called
         /\ ~last'.smooth_called
         /\ reference_line_info_' = reference_line_info_
         /\ reference_line_' = reference_line_)]_vars

C2_Witness ==
  /\ last.op = "Init"
  /\ pnc_map_ = NULL
  /\ last.ret = FALSE
  /\ ~AnyNaN(init_pose_)
  /\ Len(reference_line_info_) > 0

\* C3: an Init on a pose with a NaN coordinate returns false and invokes
\* neither the map collaborator nor the smoother.
C3_NaNPose ==
  (last.op = "Init" /\ AnyNaN(init_pose_))
  => (last.ret = FALSE /\ ~last.map_called /\ ~last.smooth_called)

C3_Witness ==
  /\ last.op = "Init"
  /\ pnc_map_ # NULL
  /\ init_pose_ = PointENU(Fin(10), NaN)
  /\ last.ret = FALSE
  /\ ~last.map_called

\* C4 as claimed: an Init on a pose with an infinite coordinate returns
\* false without going on to the Reference-Line Builder.
C4_AsClaimed ==
  (last.op = "Init" /\ AnyInf(init_pose_))
  => (last.ret = FALSE /\ ~last.map_called)

\* C4: with the map set, Init rejects a pose exactly when its x or y is
\* NaN; a pose with an infinite coordinate and no NaN passes the check,
\* the Reference-Line Builder is invoked and Init returns what it returns.
C4_NaNOnly ==
  (last.op = "Init" /\ pnc_map_ # NULL)
  => (/\ AnyNaN(init_pose_) => (last.ret = FALSE /\ ~last.map_called)
      /\ (AnyInf(init_pose_) /\ ~AnyNaN(init_pose_))
           => (/\ last.map_called
               /\ last.ret = (last.map_ok /\ last.smooth_ok)))

C4_Witness ==
  /\ last.op = "Init"
  /\ pnc_map_ # NULL
  /\ init_pose_ = PointENU(Inf, Fin(5))
  /\ last.map_called
  /\ last.ret = TRUE

\* C5: when the Reference-Line Builder fails (the map collaborator gives
\* no path, or the smoother rejects the raw line), Init returns false, the
\* obstacle registry is not touched and no ReferenceLineInfo is created.
C5_BuilderFailure ==
  [][(/\ last'.op = "Init"
      /\ last'.map_called
      /\ ~(last'.map_ok /\ last'.smooth_ok))
     => (/\ last'.ret = FALSE
         /\ ~last'.ingested
         /\ ~last'.attach_called
         /\ obstacles_' = obstacles_
         /\ reference_line_info_' = reference_line_info_)]_vars

C5_Witness ==
  /\ last.op = "Init"
  /\ last.map_ok /\ last.smooth_called /\ ~last.smooth_ok
  /\ last.ret = FALSE
  /\ FLAGS_enable_prediction
  /\ Len(prediction_.prediction_obstacle) > 0
  /\ obstacles_ = <<>>
  /\ reference_line_info_ = <<>>

\* C6 as claimed: when AddObstacles fails for a ReferenceLineInfo, Init
\* returns false.
C6_AsClaimed ==
  (last.op = "Init" /\ last.attach_called /\ ~last.attach_ok)
  => last.ret = FALSE

HasDuplicateIds(prediction) ==
  \E i, j \in 1..Len(prediction.prediction_obstacle) :
    /\ i # j
    /\ prediction.prediction_obstacle[i].id
         = prediction.prediction_obstacle[j].id

\* C7 as claimed: when the prediction set ingested by Init holds two
\* obstacles of one identity, Init does not return true.
C7_AsClaimed ==
  (last.op = "Init" /\ last.ingested /\ HasDuplicateIds(prediction_))
  => last.ret = FALSE

\* the prediction set the i-th AlignPredictionTime call left behind
AfterCall(i) ==
  IF i < Len(align_trace) THEN align_trace[i + 1].before ELSE prediction_

SameShape(a, b) ==
  /\ Len(a.prediction_obstacle) = Len(b.prediction_obstacle)
  /\ \A i \in 1..Len(b.prediction_obstacle) :
       LET ta == a.prediction_obstacle[i].trajectory
           tb == b.prediction_obstacle[i].trajectory
       IN  /\ a.prediction_obstacle[i].id = b.prediction_obstacle[i].id
           /\ Len(ta) = Len(tb)
           /\ \A j \in 1..Len(tb) : Len(ta[j]) = Len(tb[j])

PointsOf(prediction) ==
  UNION {UNION {{<<i, j, k>> :
                   k \in 1..Len(prediction.prediction_obstacle[i]
                                  .trajectory[j])} :
                j \in 1..Len(prediction.prediction_obstacle[i].trajectory)} :
         i \in 1..Len(prediction.prediction_obstacle)}

RelativeTime(prediction, p) ==
  prediction.prediction_obstacle[p[1]].trajectory[p[2]][p[3]]

\* C8: after AlignPredictionTime(H) on a prediction set with header time T,
\* every point's relative_time is T + R - H, R being its relative_time
\* before the call; the header time and the numbers of obstacles,
\* trajectories and points are unchanged.
C8_Rebase ==
  \A c \in 1..Len(align_trace) :
    LET before == align_trace[c].before
        after == AfterCall(c)
    IN  /\ after.header = before.header
        /\ SameShape(after, before)
        /\ \A p \in PointsOf(before) :
             RelativeTime(after, p)
               = before.header + RelativeTime(before, p) - align_trace[c].H

C8_Witness ==
  /\ Len(align_trace) = 1
  /\ align_trace[1].H = 202
  /\ align_trace[1].before.header = 200
  /\ \E p \in PointsOf(prediction_) :
       /\ RelativeTime(align_trace[1].before, p) = 1
       /\ RelativeTime(prediction_, p) = -1

\* C9 as claimed: a second AlignPredictionTime(H) with the same H always
\* changes every point's relative_time again.
C9_AsClaimed ==
  \A c \in 1..(Len(align_trace) - 1) :
    align_trace[c].H = align_trace[c + 1].H
    => \A p \in PointsOf(AfterCall(c)) :
         RelativeTime(AfterCall(c + 1), p) # RelativeTime(AfterCall(c), p)

\* C9: a second AlignPredictionTime(H) with the same H shifts every point
\* by T - H once more, so it changes the relative_time exactly when the
\* prediction header time T differs from H, and leaves it alone when T = H.
C9_ShiftsAgain ==
  \A c \in 1..(Len(align_trace) - 1) :
    align_trace[c].H = align_trace[c + 1].H
    => \A p \in PointsOf(AfterCall(c)) :
         LET one == RelativeTime(AfterCall(c), p)
             two == RelativeTime(AfterCall(c + 1), p)
             T == align_trace[c].before.header
         IN  /\ two - one = T - align_trace[c].H
             /\ (two # one) <=> (T # align_trace[c].H)

C9_Witness ==
  /\ Len(align_trace) = 2
  /\ align_trace[1].H = align_trace[2].H
  /\ align_trace[1].before.header # align_trace[1].H
  /\ \E p \in PointsOf(prediction_) :
       RelativeTime(prediction_, p) # RelativeTime(AfterCall(1), p)

Min(S) == CHOOSE x \in S : \A y \in S : x <= y

Increasing(s) == \A i \in 1..(Len(s) - 1) : s[i] < s[i + 1]

\* C10 as claimed: after N+1 insertions into a history of capacity N the
\* Frame with the smallest sequence number is the one absent, in whatever
\* order they were inserted, and the history never holds more than N.
C10_AsClaimed ==
  /\ Len(frame_history) <= max_history_frame_num
  /\ Len(inserted) = max_history_frame_num + 1
     => SeqToSet(frame_history)
          = SeqToSet(inserted) \ {Min(SeqToSet(inserted))}

\* C10: after N+1 insertions into a history of capacity N the Frame
\* inserted first is the one absent and the N others are present; it is
\* the Frame with the smallest sequence number when the Frames were
\* inserted in increasing order; the history never holds more than N.
C10_FifoEviction ==
  /\ Len(frame_history) <= max_history_frame_num
  /\ Len(inserted) = max_history_frame_num + 1
     => /\ SeqToSet(frame_history) = SeqToSet(inserted) \ {inserted[1]}
        /\ Cardinality(SeqToSet(frame_history)) = max_history_frame_num
        /\ Increasing(inserted)
           => SeqToSet(frame_history)
                = SeqToSet(inserted) \ {Min(SeqToSet(inserted))}

C10_Witness ==
  /\ Len(inserted) = max_history_frame_num + 1
  /\ ~Increasing(inserted)
  /\ inserted[1] # Min(SeqToSet(inserted))
  /\ \A i \in 1..Len(frame_history) : frame_history[i] # inserted[1]

\* C11: a successful Reference-Line Builder call yields exactly one
\* candidate, so after a successful Init the ReferenceLineInfo list has
\* exactly one element and path_decision_ points at an element in range.
C11_OneCandidate ==
  (last.op = "Init" /\ last.ret = TRUE)
  => (/\ Len(reference_line_info_) = 1
      /\ path_decision_ # NULL
      /\ path_decision_ <= Len(reference_line_info_)
      /\ Len(CreateReferenceLineFromRouting(
               init_pose_, routing_response_, <<>>, TRUE, TRUE)
               .reference_lines) = 1)

C11_Witness ==
  /\ last.op = "Init"
  /\ last.ret = TRUE
  /\ last.attach_ok
  /\ Len(reference_line_info_) = 1
  /\ Len(reference_line_info_[1].path_decision) = 2

Setters == {"SetVehicleInitPose", "SetRoutingResponse", "SetPrediction",
            "SetPlanningStartPoint"}

\* C12 as claimed: a setter called on a Frame whose Init has just returned
\* success is refused, i.e. it changes none of the input fields.
C12_AsClaimed ==
  [][(last.op = "Init" /\ last.ret = TRUE /\ last'.op \in Setters)
     => UNCHANGED <<init_pose_, routing_response_, prediction_,
                    planning_start_point_>>]_vars

\* C13 as claimed: the map reference an Init saw at its map check is still
\* the one set, and is the non-null one it uses when it calls the map
\* collaborator, whatever SetMap calls and other Inits run in between.
C13_AsClaimed ==
  \A f \in Frames :
    /\ init_step[f].pc = "checked" => pnc_map_ = init_step[f].seen
    /\ init_step[f].pc = "called"
       => (/\ init_step[f].used = init_step[f].seen
           /\ init_step[f].used # NULL)

\* C14: the ReferenceLineInfo list is empty when the Frame is constructed
\* and goes from empty to non-empty only in an Init call that returns
\* true, whatever setter, AlignPredictionTime, AddObstacle and Init calls
\* are made.
C14_NonEmptyOnlyAfterInit ==
  /\ reference_line_info_ = <<>>
  /\ [][(reference_line_info_ = <<>> /\ reference_line_info_' # <<>>)
        => (last'.op = "Init" /\ last'.ret = TRUE)]_vars

C14_Witness ==
  /\ last.op = "Init"
  /\ last.ret = TRUE
  /\ ~last.attach_ok
  /\ reference_line_info_ # <<>>
  /\ align_trace # <<>>
  /\ Find(obstacles_, 50)

\* C15 as claimed: after an Init that ingests obstacles, every obstacle of
\* the registry is an externally injected one or one built from the
\* prediction set current at that call, and the ReferenceLineInfo list
\* holds that call's candidate only.
C15_AsClaimed ==
  (last.op = "Init" /\ last.ingested)
  => (/\ \A i \in 1..Len(obstacles_) :
           \/ obstacles_[i].id \in ExternalIds
           \/ \E j \in 1..Len(prediction_.prediction_obstacle) :
                obstacles_[i] = CreateObstacles(prediction_)[j]
      /\ Len(reference_line_info_) = 1)

\* C16: after a successful Init the primary reference line is the first
\* candidate's reference line, built from the pose and routing of this
\* call, and path_decision_ points at the path decision of the first
\* element of the ReferenceLineInfo list.
C16_PrimaryIsFirst ==
  (last.op = "Init" /\ last.ret = TRUE)
  => (/\ reference_line_ = reference_line_info_[1].reference_line
      /\ reference_line_.path.position = init_pose_
      /\ reference_line_.path.routing = routing_response_
      /\ reference_line_.smoothed
      /\ path_decision_ = 1)

C16_Witness ==
  /\ last.op = "Init"
  /\ last.ret = TRUE
  /\ init_pose_ = PointENU(Fin(10), Inf)
  /\ routing_response_ = 1
  /\ reference_line_ = reference_line_info_[1].reference_line
  /\ reference_line_.path = Path(1, PointENU(Fin(10), Inf))
  /\ path_decision_ = 1

\* C17 as claimed: after a successful Init, with ingestion enabled the
\* registry has an entry for the identity of every obstacle of the current
\* prediction set; with ingestion disabled or an empty prediction set, and
\* no externally injected obstacle, the registry and the candidate's
\* obstacle set are empty.
C17_AsClaimed ==
  (last.op = "Init" /\ last.ret = TRUE)
  => (/\ FLAGS_enable_prediction
         => \A j \in 1..Len(prediction_.prediction_obstacle) :
              Find(obstacles_, prediction_.prediction_obstacle[j].id)
      /\ (/\ ~FLAGS_enable_prediction
             \/ prediction_.prediction_obstacle = <<>>
          /\ ~\E i \in 1..Len(obstacles_) :
                obstacles_[i].id \in ExternalIds)
         => (/\ obstacles_ = <<>>
             /\ reference_line_info_[1].path_decision = <<>>))

C19_AsClaimed ==
  [][last'.op = "AddObstacle"
     => IF Find(obstacles_, last'.arg)
        THEN last'.ret = FALSE /\ obstacles_' = obstacles_
        ELSE last'.ret = TRUE /\ Find(obstacles_', last'.arg)]_vars

\* C20: an Init that leaves through one of its failure exits (map unset,
\* NaN pose, Reference-Line Builder failure) returns false and leaves the
\* ReferenceLineInfo list, the obstacle registry, the primary reference
\* line, path_decision_, the prediction set and the output trajectory
\* exactly as they were.
C20_FailedInitKeepsState ==
  [][(/\ last'.op = "Init"
      /\ \/ pnc_map_ = NULL
         \/ AnyNaN(init_pose_)
         \/ last'.map_called /\ ~(last'.map_ok /\ last'.smooth_ok))
     => (/\ last'.ret = FALSE
         /\ UNCHANGED <<reference_line_info_, obstacles_, reference_line_,
                        path_decision_, prediction_, trajectory_pb_>>)]_vars

C20_Witness ==
  /\ last.op = "Init"
  /\ last.ret = FALSE
  /\ last.map_called /\ ~last.map_ok
  /\ reference_line_info_ # <<>>
  /\ reference_line_info_[1].path_decision = <<99>>
  /\ path_decision_ = 1
  /\ Len(obstacles_) = 2
  /\ trajectory_pb_ = 1

====
